---- MODULE Spec2Model ----
(***************************************************************************)
(* Task queue / manager subsystem of VideoSynthesis:                       *)
(*   core/download_manager.py       DownloadManager (bounded concurrency)  *)
(*   core/transcription_manager.py  TranscriptionManager (sequential)      *)
(* Every `with self.lock:` block is one atomic step; the code between two  *)
(* lock blocks of one thread is a thread position (the *_caller and        *)
(* *_worker variables), so other threads interleave exactly where the      *)
(* lock is released.  The two managers share no state; a behaviour         *)
(* exercises the one chosen by `manager`.                                  *)
(***************************************************************************)
EXTENDS Integers, Sequences, FiniteSets, TLC

\* ---- bounds ----
MaxTasks == 3
MaxConcurrent == 2

TaskIds == 1..MaxTasks

\* ---- values ----
None == "None"
NoTask == 0             \* None where the code holds Optional[str] task ids
NoInt == <<>>           \* None where the code returns Optional[int]
SomeInt(n) == <<n>>
QUEUED == "queued"
DOWNLOADING == "downloading"
TRANSCRIBING == "transcribing"
DONE == "done"
FAILED == "failed"

\* what a collaborator hands to completion_callback
OutputFile == "output_file"
Text == "text"
ErrorMsg == "error_msg"

\* the message a failing collaborator reports for a task (str(e) of whatever
\* went wrong with that input)
DiskFull == "disk full"
FailureMessage(task_id) == IF task_id % 2 = 0 THEN DiskFull ELSE ErrorMsg

\* the logger before this manager wrote anything
NoLog == <<"", 0>>

\* ---- observers ----
\* DownloadManager.status_callback = None
NoObserver == "none"

\* callbacks a client may register: one that returns, one that raises, and
\* one that reads the manager (get_all_tasks / get_task / get_summary) before
\* it returns
Returning == "returning"
Raising == "raising"
Reading == "reading"
Observers == {Returning, Raising, Reading}

\* threading.Lock between two steps: every lock block is one step, so the lock
\* is held between steps only by a block that never ends
Free == "free"
Held == "held"

\* what a callback that reads the manager finds for the task it is told about
Unseen == [status |-> None, active |-> FALSE]

\* the step invoked no callback
NoNotification ==
    [event |-> "", task |-> NoTask, locked |-> FALSE, registered |-> <<>>,
     invoked |-> <<>>, logged |-> 0, raised |-> FALSE, seen |-> Unseen]

\* a client that has not called get_all_tasks; otherwise the list it got: the
\* records it refers to (the list holds the manager's own record objects) and
\* the field values these records had when the call returned
NotAsked == [asked |-> FALSE, refs |-> <<>>, then |-> <<>>]

\* ---- DownloadTab ----
\* self.download_path when a folder was chosen (it is None before)
Folder == "folder"

\* messagebox texts of start_downloads; no dialog
NoDialog == ""
MissingRequirements == "FFmpeg is not installed"
NoUrl == "Please enter at least one video URL"
NoDestination == "Please select a destination folder"

\* the Start button was not pressed yet; otherwise what the handler found
\* (FFmpeg installed, number of non-empty URL fields, download_path), the
\* dialog it showed, and how many add_download calls the tab has asked for
NoRequest ==
    [asked |-> FALSE, ffmpeg |-> FALSE, urls |-> 0, download_path |-> None,
     dialog |-> NoDialog, accepted |-> 0]

\* DownloadTab._last_update against time.time(): the attribute is not set yet,
\* it is less than 100 ms old, or it is older
Unset == "unset"
Recent == "recent"
Old == "old"

\* the tab before any notification: no _last_update, no refresh queued with
\* parent.after, no task shown in the status log
NoDisplay == [last_update |-> Unset, scheduled |-> 0, shown |-> <<>>]

VARIABLES
    manager,            \* which manager object the behaviour exercises
    status_callback,    \* DownloadManager.status_callback
    status_callbacks,   \* TranscriptionManager.status_callbacks
    registrations,      \* calls of set_status_callback / add_status_callback so far
    last_registered,    \* the callback given to the last of these calls
    all_tasks,          \* the list a client got from its get_all_tasks call
    tab,                \* DownloadTab: its last start_downloads call and what came of it
    display,            \* DownloadTab: _last_update, the queued refreshes, the status log
    dm_lock,            \* DownloadManager.lock
    dm_notified,        \* the _notify_status_change of the last step, if it invoked a callback
    tm_notified,        \* the same for the TranscriptionManager
    max_concurrent,     \* DownloadManager.max_concurrent
    dm_tasks,           \* DownloadManager.tasks
    dm_task_order,      \* DownloadManager.task_order
    dm_queue,           \* DownloadManager.queue (queue.Queue, FIFO)
    active_downloads,   \* DownloadManager.active_downloads
    dm_caller,          \* position of the thread inside add_download, per task
    dm_worker,          \* position of the downloader thread, per task
    dm_dispatched,      \* ids in the order downloader.download was called
    dm_log,             \* last message given to logger.info
    dm_ret,             \* value returned by the last public call that returned
    dm_callbacks,       \* per task, how often its completion_callback was invoked
    tm_tasks,           \* TranscriptionManager.tasks
    tm_task_order,      \* TranscriptionManager.task_order
    tm_queue,           \* TranscriptionManager.queue (list)
    current_task_id,    \* TranscriptionManager.current_task_id
    is_processing,      \* TranscriptionManager.is_processing
    tm_caller,          \* position of the thread inside add_transcription
    tm_worker,          \* position of the _start_transcription / transcriber thread
    tm_dispatched,      \* ids in the order the _start_transcription thread was started
    tm_log,             \* last message given to logger.info
    tm_ret,             \* value returned by the last public call that returned
    tm_callbacks        \* per task, how often its completion_callback was invoked

\* what no operation on tasks changes: the object exercised and its observers
envVars == <<manager, status_callback, status_callbacks, registrations, last_registered,
            all_tasks, tab, display>>
dmVars == <<max_concurrent, dm_tasks, dm_task_order, dm_queue, active_downloads,
            dm_caller, dm_worker, dm_dispatched, dm_log, dm_ret, dm_callbacks,
            dm_lock, dm_notified>>
tmVars == <<tm_tasks, tm_task_order, tm_queue, current_task_id, is_processing,
            tm_caller, tm_worker, tm_dispatched, tm_log, tm_ret, tm_callbacks,
            tm_notified>>
vars == <<envVars, dmVars, tmVars>>

\* ---- list / dict helpers ----
EmptyDict == [i \in {} |-> None]

\* the assignment replaces the mapping by one holding the new record only
DictPut_Overwrite(d, k, v) == [i \in {k} |-> v]

DictPut(d, k, v) == [i \in (DOMAIN d) \cup {k} |-> IF i = k THEN v ELSE d[i]]

DictDel(d, ks) == [i \in (DOMAIN d) \ ks |-> d[i]]

InList(s, x) == \E i \in 1..Len(s) : s[i] = x

\* list.index(x), 0-based
ListIndex(s, x) == (CHOOSE i \in 1..Len(s) : s[i] = x /\ \A j \in 1..(i - 1) : s[j] # x) - 1

\* the removed element's place is filled with the last element
ListRemove_SwapLast(s, x) ==
    IF InList(s, x)
    THEN LET i == ListIndex(s, x) + 1
         IN [k \in 1..(Len(s) - 1) |-> IF k = i THEN s[Len(s)] ELSE s[k]]
    ELSE s

\* list.remove(x): drops the first occurrence
ListRemove(s, x) ==
    IF InList(s, x)
    THEN LET i == ListIndex(s, x) + 1
         IN SubSeq(s, 1, i - 1) \o SubSeq(s, i + 1, Len(s))
    ELSE s

RECURSIVE ListRemoveAll(_, _)
ListRemoveAll(s, ks) ==
    IF ks = {} THEN s
    ELSE LET k == CHOOSE x \in ks : TRUE
         IN ListRemoveAll(ListRemove(s, k), ks \ {k})

IsTerminal(status) == status \in {DONE, FAILED}

\* ids of the records a dict holds with a given status
WithStatus(d, status) == {i \in DOMAIN d : d[i].status = status}

\* ids of the list, as a set
Ids(list) == {list[k] : k \in 1..Len(list)}

\* ---- _notify_status_change ----

\* how many of the callbacks raise
Raised(callbacks) == Cardinality({k \in 1..Len(callbacks) : callbacks[k] = Raising})

\* DownloadManager._notify_status_change: the callback, if one is set, is
\* called inside try / except and an exception is logged
dm_notify_status_change(callback) ==
    IF callback = NoObserver
    THEN [invoked |-> <<>>, logged |-> 0, raised |-> FALSE]
    ELSE [invoked |-> <<callback>>, logged |-> Raised(<<callback>>), raised |-> FALSE]

\* the loop stops at the first callback that raises and the exception leaves
\* _notify_status_change
tm_notify_status_change_Uncaught(callbacks) ==
    LET raising == {k \in 1..Len(callbacks) : callbacks[k] = Raising}
    IN IF raising = {}
       THEN [invoked |-> callbacks, logged |-> 0, raised |-> FALSE]
       ELSE LET first == CHOOSE k \in raising : \A j \in raising : k <= j
            IN [invoked |-> SubSeq(callbacks, 1, first), logged |-> 0, raised |-> TRUE]

\* TranscriptionManager._notify_status_change: every callback is called inside
\* its own try / except and an exception is logged
tm_notify_status_change(callbacks) ==
    [invoked |-> callbacks, logged |-> Raised(callbacks), raised |-> FALSE]

Notification(event, task_id, locked, registered, outcome, seen) ==
    [event |-> event, task |-> task_id, locked |-> locked, registered |-> registered,
     invoked |-> outcome.invoked, logged |-> outcome.logged, raised |-> outcome.raised,
     seen |-> seen]

\* self._notify_status_change() of the DownloadManager after `event`
DMNotified(event, task_id, locked, seen) ==
    IF status_callback = NoObserver
    THEN NoNotification
    ELSE Notification(event, task_id, locked, <<status_callback>>,
                      dm_notify_status_change(status_callback), seen)

\* self._notify_status_change() of the TranscriptionManager after `event`
TMNotified(event, task_id, locked, seen) ==
    IF status_callbacks = <<>>
    THEN NoNotification
    ELSE Notification(event, task_id, locked, status_callbacks,
                      tm_notify_status_change(status_callbacks), seen)

\* status of a task and whether it counts as active, as get_task / get_summary
\* give them
DMSeen(tasks, active, task_id) ==
    [status |-> IF task_id \in DOMAIN tasks THEN tasks[task_id].status ELSE None,
     active |-> InList(active, task_id)]

TMSeen(tasks, processing, current, task_id) ==
    [status |-> IF task_id \in DOMAIN tasks THEN tasks[task_id].status ELSE None,
     active |-> processing /\ current = task_id]

\* ======================= DownloadManager =======================

DownloadTask(id) ==
    [id |-> id, status |-> QUEUED, progress |-> 0, output_file |-> None, error |-> None]

\* off-by-one in the slot test: `<=` for `<`
DMHasSlot_OffByOne(st) == Len(st.active) <= max_concurrent /\ st.queue # <<>>

\* while-condition of _process_queue
DMHasSlot(st) == Len(st.active) < max_concurrent /\ st.queue # <<>>

\* the slot is taken and the downloader started, but the status stays QUEUED
start_download_StatusKept(st, task_id) ==
    IF task_id \notin DOMAIN st.tasks
    THEN st
    ELSE [st EXCEPT !.active = Append(@, task_id),
                    !.worker = [@ EXCEPT ![task_id] = "inflight"],
                    !.dispatched = Append(@, task_id),
                    !.log = <<"Starting download", task_id>>]

\* the record is marked DOWNLOADING but the id is not tracked as active
start_download_notify_Untracked(st, task_id) ==
    LET marked == [st EXCEPT !.tasks = [@ EXCEPT ![task_id].status = DOWNLOADING],
                             !.log = <<"Starting download", task_id>>]
    IN [marked EXCEPT !.notified =
            DMNotified("admission", task_id, TRUE,
                       IF status_callback = Reading
                       THEN Unseen
                       ELSE DMSeen(marked.tasks, marked.active, task_id))]

\* _start_download, lines 113-118: mark DOWNLOADING, track as active, log, and
\* notify; _process_queue holds the lock during all of it
start_download_notify(st, task_id) ==
    LET marked == [st EXCEPT !.tasks = [@ EXCEPT ![task_id].status = DOWNLOADING],
                             !.active = Append(@, task_id),
                             !.log = <<"Starting download", task_id>>]
    IN [marked EXCEPT !.notified =
            DMNotified("admission", task_id, TRUE,
                       IF status_callback = Reading
                       THEN Unseen
                       ELSE DMSeen(marked.tasks, marked.active, task_id))]

\* the download runs in the calling thread, inside the lock block
download_Inline(st, task_id) ==
    [st EXCEPT !.worker = [@ EXCEPT ![task_id] = "inflight"],
               !.dispatched = Append(@, task_id),
               !.lock = Held]

\* VideoDownloader.download: starts the thread that does the work and returns
download(st, task_id) ==
    [st EXCEPT !.worker = [@ EXCEPT ![task_id] = "inflight"],
               !.dispatched = Append(@, task_id)]

\* _start_download: mark DOWNLOADING, track as active, notify, hand to the
\* downloader.  A callback that reads the manager waits for the lock its own
\* thread holds: it never returns and the lock is never released
start_download(st, task_id) ==
    IF task_id \notin DOMAIN st.tasks
    THEN st
    ELSE IF status_callback = Reading
         THEN [start_download_notify(st, task_id) EXCEPT !.lock = Held]
         ELSE download(start_download_notify(st, task_id), task_id)

\* the head of the waiting line is read but left in place
DMAdmitNext_Peek(st) == start_download(st, Head(st.queue))

\* queue.get() followed by _start_download
DMAdmitNext(st) == start_download([st EXCEPT !.queue = Tail(@)], Head(st.queue))

RECURSIVE dm_process_queue(_)
dm_process_queue(st) ==
    IF st.lock = Free /\ DMHasSlot(st) THEN dm_process_queue(DMAdmitNext(st)) ELSE st

DMState ==
    [tasks |-> dm_tasks, active |-> active_downloads, queue |-> dm_queue,
     worker |-> dm_worker, dispatched |-> dm_dispatched, log |-> dm_log,
     lock |-> dm_lock, notified |-> NoNotification]

\* installs the outcome of a lock block in the manager's fields
DMInstall(st) ==
    /\ dm_tasks' = st.tasks
    /\ active_downloads' = st.active
    /\ dm_queue' = st.queue
    /\ dm_worker' = st.worker
    /\ dm_dispatched' = st.dispatched
    /\ dm_log' = st.log
    /\ dm_lock' = st.lock
    /\ dm_notified' = st.notified

DMSubmitted == {i \in TaskIds : dm_caller[i] # "new"}

\* the new id goes to the head of the waiting line
QueuePut_Front(queue, task_id) == <<task_id>> \o queue

\* self.queue.put(task_id) of a queue.Queue
QueuePut(queue, task_id) == Append(queue, task_id)

\* add_download, up to the release of the lock and the log line
AddDownload ==
    /\ manager = "download"
    /\ dm_lock = Free
    /\ Cardinality(DMSubmitted) < MaxTasks
    /\ LET task_id == Cardinality(DMSubmitted) + 1
       IN /\ dm_tasks' = DictPut(dm_tasks, task_id, DownloadTask(task_id))
          /\ dm_task_order' = Append(dm_task_order, task_id)
          /\ dm_queue' = QueuePut(dm_queue, task_id)
          /\ dm_caller' = [dm_caller EXCEPT ![task_id] = "added"]
          /\ dm_log' = <<"Added download task", task_id>>
          /\ dm_notified' = DMNotified("submit", task_id, FALSE,
                                       DMSeen(dm_tasks', active_downloads, task_id))
    /\ UNCHANGED <<envVars, max_concurrent, active_downloads, dm_worker, dm_dispatched,
                   dm_ret, dm_callbacks, dm_lock, tmVars>>

\* add_download, the admission pass and the return
AddDownloadProcessQueue(task_id) ==
    /\ manager = "download"
    /\ dm_lock = Free
    /\ dm_caller[task_id] = "added"
    /\ LET st == dm_process_queue(DMState)
       IN /\ DMInstall(st)
          /\ dm_caller' = IF st.lock = Held
                          THEN dm_caller
                          ELSE [dm_caller EXCEPT ![task_id] = "returned"]
          /\ dm_ret' = IF st.lock = Held THEN dm_ret ELSE SomeInt(task_id)
    /\ UNCHANGED <<envVars, max_concurrent, dm_task_order, dm_callbacks, tmVars>>

\* a failure changes the status but the message is not stored
DMCompleted_NoError(tasks, task_id, success, output_file, message) ==
    IF task_id \in DOMAIN tasks
    THEN IF success
         THEN [tasks EXCEPT ![task_id].status = DONE,
                            ![task_id].output_file = output_file,
                            ![task_id].progress = 100]
         ELSE [tasks EXCEPT ![task_id].status = FAILED]
    ELSE tasks

\* completion_callback, the `with self.lock:` block
DMCompleted(tasks, task_id, success, output_file, message) ==
    IF task_id \in DOMAIN tasks
    THEN IF success
         THEN [tasks EXCEPT ![task_id].status = DONE,
                            ![task_id].output_file = output_file,
                            ![task_id].progress = 100]
         ELSE [tasks EXCEPT ![task_id].status = FAILED,
                            ![task_id].error = message]
    ELSE tasks

\* the completed task is left in active_downloads
DMReleaseSlot_Kept(active, tasks, task_id) == active

\* completion_callback: the task leaves active_downloads
DMReleaseSlot(active, tasks, task_id) ==
    IF task_id \in DOMAIN tasks THEN ListRemove(active, task_id) ELSE active

DMCompletion(task_id, success) ==
    /\ manager = "download"
    /\ dm_lock = Free
    /\ dm_worker[task_id] = "inflight"
    /\ dm_tasks' = DMCompleted(dm_tasks, task_id, success,
                               IF success THEN OutputFile ELSE None,
                               IF success THEN "Download completed successfully"
                                          ELSE FailureMessage(task_id))
    /\ active_downloads' = DMReleaseSlot(active_downloads, dm_tasks, task_id)
    /\ dm_worker' = [dm_worker EXCEPT ![task_id] =
                         IF status_callback = NoObserver THEN "completed" ELSE "notifying"]
    /\ dm_callbacks' = [dm_callbacks EXCEPT ![task_id] = @ + 1]
    /\ dm_log' = <<IF success THEN "Download completed" ELSE "Download failed", task_id>>
    /\ dm_notified' = NoNotification
    /\ UNCHANGED <<envVars, max_concurrent, dm_task_order, dm_queue, dm_caller,
                   dm_dispatched, dm_ret, dm_lock, tmVars>>

\* the callback is told before the lock block ran
DMCompletionNotify_BeforeLock(task_id) ==
    /\ manager = "download"
    /\ dm_worker[task_id] = "inflight"
    /\ status_callback # NoObserver
    /\ status_callback = Reading => dm_lock = Free
    /\ dm_notified' = DMNotified("completion", task_id, FALSE,
                                 DMSeen(dm_tasks, active_downloads, task_id))
    /\ UNCHANGED <<envVars, max_concurrent, dm_tasks, dm_task_order, dm_queue,
                   active_downloads, dm_caller, dm_worker, dm_dispatched, dm_log, dm_ret,
                   dm_callbacks, dm_lock, tmVars>>

\* completion_callback, self._notify_status_change() after the lock was
\* released: other threads may have run since.  A callback that reads the
\* manager needs the lock for the time of its read
DMCompletionNotify(task_id) ==
    /\ manager = "download"
    /\ dm_worker[task_id] = "notifying"
    /\ status_callback = Reading => dm_lock = Free
    /\ dm_notified' = DMNotified("completion", task_id, FALSE,
                                 DMSeen(dm_tasks, active_downloads, task_id))
    /\ dm_worker' = [dm_worker EXCEPT ![task_id] = "completed"]
    /\ UNCHANGED <<envVars, max_concurrent, dm_tasks, dm_task_order, dm_queue,
                   active_downloads, dm_caller, dm_dispatched, dm_log, dm_ret,
                   dm_callbacks, dm_lock, tmVars>>

\* the completion callback returns without an admission pass
DMCompletionProcessQueue_NoPass(task_id) ==
    /\ manager = "download"
    /\ dm_lock = Free
    /\ dm_worker[task_id] = "completed"
    /\ dm_worker' = [dm_worker EXCEPT ![task_id] = "exited"]
    /\ dm_notified' = NoNotification
    /\ UNCHANGED <<envVars, max_concurrent, dm_tasks, dm_task_order, dm_queue,
                   active_downloads, dm_caller, dm_dispatched, dm_log, dm_ret,
                   dm_callbacks, dm_lock, tmVars>>

\* completion_callback, the admission pass after the lock was released
DMCompletionProcessQueue(task_id) ==
    /\ manager = "download"
    /\ dm_lock = Free
    /\ dm_worker[task_id] = "completed"
    /\ LET st == dm_process_queue(DMState)
       IN DMInstall(IF st.lock = Held THEN st ELSE [st EXCEPT !.worker[task_id] = "exited"])
    /\ UNCHANGED <<envVars, max_concurrent, dm_task_order, dm_caller, dm_ret, dm_callbacks, tmVars>>

\* ---- progress messages of the downloader ----

\* a message is the text before its first "%", as whitespace-separated words,
\* and whether a "%" occurs at all; a word is a number or some other text
Num(n) == <<"num", n>>
Word(w) == <<"word", 0>>
Message(has_percent, before) == [has_percent |-> has_percent, before |-> before]

\* percentages yt-dlp reports in _percent_str
Percents == {20, 80}

\* what progress_hook and _download hand to progress_callback: the
\* "Downloading: <percent> | Speed: ... | ETA: ..." line with a number or with
\* an unknown percentage, and the lines without a percentage
Messages ==
    {Message(TRUE, <<Word("Downloading:"), Num(p)>>) : p \in Percents}
        \cup {Message(TRUE, <<Word("Downloading:"), Word("N/A")>>),
              Message(FALSE, <<Word("Extracting"), Word("video"), Word("information...")>>),
              Message(TRUE, <<>>)}

\* float(message.split("%")[0].split()[-1]), None where the code passes on
\* IndexError / ValueError or finds no "%"
ParsePercent(message) ==
    IF ~message.has_percent THEN NoInt
    ELSE IF message.before = <<>> THEN NoInt
    ELSE LET percent_str == message.before[Len(message.before)]
         IN IF percent_str[1] = "num" THEN SomeInt(percent_str[2]) ELSE NoInt

\* progress_callback, the `with self.lock:` block
progress_callback(tasks, task_id, message) ==
    IF task_id \in DOMAIN tasks /\ ParsePercent(message) # NoInt
    THEN [tasks EXCEPT ![task_id].progress = ParsePercent(message)[1]]
    ELSE tasks

\* the downloader thread reports progress
DMProgressCallback(task_id, message) ==
    /\ manager = "download"
    /\ dm_lock = Free
    /\ dm_worker[task_id] = "inflight"
    /\ dm_tasks' = progress_callback(dm_tasks, task_id, message)
    /\ dm_notified' = DMNotified("progress", task_id, FALSE,
                                 DMSeen(dm_tasks', active_downloads, task_id))
    /\ UNCHANGED <<envVars, max_concurrent, dm_task_order, dm_queue, active_downloads,
                   dm_caller, dm_worker, dm_dispatched, dm_log, dm_ret, dm_callbacks,
                   dm_lock, tmVars>>

\* ---- DownloadManager when self.downloader.download(...) raises ----
\* (Thread.start() failing inside VideoDownloader.download; nothing in
\* _start_download, _process_queue or add_download catches it)

\* str(e) of that exception, as _download's except block reports it
CannotStart == "can't start new thread"

\* _start_download up to the download call that raises: no worker exists
start_download_raises(st, task_id) ==
    IF task_id \notin DOMAIN st.tasks
    THEN st
    ELSE [start_download_notify(st, task_id)
            EXCEPT !.worker = [@ EXCEPT ![task_id] = "unstarted"],
                   !.dispatched = Append(@, task_id)]

\* the first n iterations of the loop of _process_queue
RECURSIVE dm_admit(_, _)
dm_admit(st, n) ==
    IF n = 0 \/ st.lock = Held \/ ~DMHasSlot(st) THEN st ELSE dm_admit(DMAdmitNext(st), n - 1)

\* the outcomes of a _process_queue pass that an exception ends: some
\* iterations start their download, the next one raises out of the loop
DMRaisingPasses(st) ==
    LET before == {s1 \in {dm_admit(st, n) : n \in 0..MaxTasks} :
                       s1.lock = Free /\ DMHasSlot(s1)}
    IN {start_download_raises([s1 EXCEPT !.queue = Tail(@)], Head(s1.queue)) : s1 \in before}

\* add_download whose admission pass raises: the exception reaches the caller
AddDownloadRaises(task_id) ==
    /\ manager = "download"
    /\ dm_lock = Free
    /\ dm_caller[task_id] = "added"
    /\ \E st \in DMRaisingPasses(DMState) : DMInstall(st)
    /\ dm_caller' = [dm_caller EXCEPT ![task_id] = "raised"]
    /\ UNCHANGED <<envVars, max_concurrent, dm_task_order, dm_ret, dm_callbacks, tmVars>>

\* _download, line 80: completion_callback(True, ...) called inside the try
\* block; the lock block of the callback
DMCompletionInTry(task_id) ==
    /\ manager = "download"
    /\ dm_lock = Free
    /\ dm_worker[task_id] = "inflight"
    /\ dm_tasks' = DMCompleted(dm_tasks, task_id, TRUE, OutputFile,
                               "Download completed successfully")
    /\ active_downloads' = DMReleaseSlot(active_downloads, dm_tasks, task_id)
    /\ dm_worker' = [dm_worker EXCEPT ![task_id] = "completed_try"]
    /\ dm_callbacks' = [dm_callbacks EXCEPT ![task_id] = @ + 1]
    /\ dm_log' = <<"Download completed", task_id>>
    /\ dm_notified' = DMNotified("completion", task_id, FALSE,
                                 DMSeen(dm_tasks', active_downloads', task_id))
    /\ UNCHANGED <<envVars, max_concurrent, dm_task_order, dm_queue, dm_caller,
                   dm_dispatched, dm_ret, dm_lock, tmVars>>

\* the admission pass of that callback returns normally
DMTryProcessQueue(task_id) ==
    /\ manager = "download"
    /\ dm_lock = Free
    /\ dm_worker[task_id] = "completed_try"
    /\ LET st == dm_process_queue(DMState)
       IN DMInstall(IF st.lock = Held THEN st ELSE [st EXCEPT !.worker[task_id] = "exited"])
    /\ UNCHANGED <<envVars, max_concurrent, dm_task_order, dm_caller, dm_ret, dm_callbacks,
                   tmVars>>

\* the admission pass of that callback raises: the exception leaves
\* completion_callback and is caught by `except Exception` of _download
DMTryProcessQueueRaises(task_id) ==
    /\ manager = "download"
    /\ dm_lock = Free
    /\ dm_worker[task_id] = "completed_try"
    /\ \E st \in DMRaisingPasses([DMState EXCEPT !.worker[task_id] = "recalling"]) :
           DMInstall(st)
    /\ UNCHANGED <<envVars, max_concurrent, dm_task_order, dm_caller, dm_ret, dm_callbacks,
                   tmVars>>

\* _download, lines 82-93: the except block calls completion_callback(False,
\* None, error_msg) for the task whose callback already ran; its lock block
DMRecall(task_id) ==
    /\ manager = "download"
    /\ dm_lock = Free
    /\ dm_worker[task_id] = "recalling"
    /\ dm_tasks' = DMCompleted(dm_tasks, task_id, FALSE, None, CannotStart)
    /\ active_downloads' = DMReleaseSlot(active_downloads, dm_tasks, task_id)
    /\ dm_worker' = [dm_worker EXCEPT ![task_id] = "completed"]
    /\ dm_callbacks' = [dm_callbacks EXCEPT ![task_id] = @ + 1]
    /\ dm_log' = <<"Download failed", task_id>>
    /\ dm_notified' = DMNotified("completion", task_id, FALSE,
                                 DMSeen(dm_tasks', active_downloads', task_id))
    /\ UNCHANGED <<envVars, max_concurrent, dm_task_order, dm_queue, dm_caller,
                   dm_dispatched, dm_ret, dm_lock, tmVars>>

\* the admission pass of a callback called from the except block raises: the
\* exception ends the downloader thread
DMCompletionProcessQueueRaises(task_id) ==
    /\ manager = "download"
    /\ dm_lock = Free
    /\ dm_worker[task_id] = "completed"
    /\ \E st \in DMRaisingPasses([DMState EXCEPT !.worker[task_id] = "died"]) :
           DMInstall(st)
    /\ UNCHANGED <<envVars, max_concurrent, dm_task_order, dm_caller, dm_ret, dm_callbacks,
                   tmVars>>

\* only DONE records are collected
to_remove_DoneOnly(tasks) == {i \in DOMAIN tasks : tasks[i].status \in {DONE}}

\* clear_completed: the ids collected in to_remove
to_remove(tasks) == {i \in DOMAIN tasks : tasks[i].status \in {DONE, FAILED}}

\* clear_completed: the mapping and the order list after the removal loop
ClearedTasks(tasks) == DictDel(tasks, to_remove(tasks))

ClearedOrder(order, tasks) == ListRemoveAll(order, to_remove(tasks))

\* clear_completed: the count in the log line, and the value handed back
ClearedLog(tasks) == <<"Cleared", Cardinality(to_remove(tasks))>>

ClearReturn(tasks) == NoInt

DMClearCompleted ==
    /\ manager = "download"
    /\ dm_lock = Free
    /\ dm_tasks' = ClearedTasks(dm_tasks)
    /\ dm_task_order' = ClearedOrder(dm_task_order, dm_tasks)
    /\ dm_log' = ClearedLog(dm_tasks)
    /\ dm_ret' = ClearReturn(dm_tasks)
    /\ dm_notified' = DMNotified("clear", NoTask, FALSE, Unseen)
    /\ UNCHANGED <<envVars, max_concurrent, dm_queue, active_downloads, dm_caller,
                   dm_worker, dm_dispatched, dm_callbacks, dm_lock, tmVars>>

\* get_all_tasks
GetAllTasks(tasks, order) ==
    LET present == SelectSeq(order, LAMBDA i : i \in DOMAIN tasks)
    IN [k \in 1..Len(present) |-> tasks[present[k]]]

\* DownloadManager.get_summary
DMSummary ==
    [total |-> Cardinality(DOMAIN dm_tasks),
     queued |-> Cardinality(WithStatus(dm_tasks, QUEUED)),
     active |-> Len(active_downloads),
     done |-> Cardinality(WithStatus(dm_tasks, DONE)),
     failed |-> Cardinality(WithStatus(dm_tasks, FAILED))]

\* ======================= TranscriptionManager =======================

TranscriptionTask(id) ==
    [id |-> id, status |-> QUEUED, progress |-> 0, text |-> None, error |-> None]

TMState ==
    [tasks |-> tm_tasks, queue |-> tm_queue, current |-> current_task_id,
     processing |-> is_processing, worker |-> tm_worker, dispatched |-> tm_dispatched,
     log |-> tm_log, notified |-> NoNotification]

TMInstall(st) ==
    /\ tm_tasks' = st.tasks
    /\ tm_queue' = st.queue
    /\ current_task_id' = st.current
    /\ is_processing' = st.processing
    /\ tm_worker' = st.worker
    /\ tm_dispatched' = st.dispatched
    /\ tm_log' = st.log
    /\ tm_notified' = st.notified

\* the is_processing test is dropped
TMBusyOrEmpty_NoFlag(st) == st.queue = <<>>

\* _process_queue: the early return
TMBusyOrEmpty(st) == st.processing \/ st.queue = <<>>

\* queue.pop() for queue.pop(0): the newest id is read
TMNextTask_Last(queue) == queue[Len(queue)]

\* _process_queue: queue.pop(0)
TMNextTask(queue) == Head(queue)

TMQueueAfterPop(queue) == Tail(queue)

\* the popped id is not recorded as the current task
tm_process_queue_NoCurrent(st) ==
    IF TMBusyOrEmpty(st)
    THEN st
    ELSE LET task_id == TMNextTask(st.queue)
         IN [st EXCEPT !.processing = TRUE,
                       !.queue = TMQueueAfterPop(@),
                       !.worker = [@ EXCEPT ![task_id] = "spawned"],
                       !.dispatched = Append(@, task_id)]

\* _process_queue: the lock block and the start of the _start_transcription thread
tm_process_queue(st) ==
    IF TMBusyOrEmpty(st)
    THEN st
    ELSE LET task_id == TMNextTask(st.queue)
         IN [st EXCEPT !.processing = TRUE,
                       !.queue = TMQueueAfterPop(@),
                       !.current = task_id,
                       !.worker = [@ EXCEPT ![task_id] = "spawned"],
                       !.dispatched = Append(@, task_id)]

TMSubmitted == {i \in TaskIds : tm_caller[i] # "new"}

\* add_transcription, up to the release of the lock and the log line
AddTranscription ==
    /\ manager = "transcription"
    /\ Cardinality(TMSubmitted) < MaxTasks
    /\ LET task_id == Cardinality(TMSubmitted) + 1
       IN /\ tm_tasks' = DictPut(tm_tasks, task_id, TranscriptionTask(task_id))
          /\ tm_task_order' = Append(tm_task_order, task_id)
          /\ tm_queue' = Append(tm_queue, task_id)
          /\ tm_log' = <<"Added transcription task", task_id>>
          /\ tm_notified' = TMNotified("submit", task_id, FALSE,
                                       TMSeen(tm_tasks', is_processing, current_task_id, task_id))
          /\ tm_caller' = [tm_caller EXCEPT ![task_id] =
                               IF tm_notified'.raised THEN "raised" ELSE "added"]
    /\ UNCHANGED <<envVars, current_task_id, is_processing, tm_worker, tm_dispatched,
                   tm_ret, tm_callbacks, dmVars>>

\* add_transcription, the admission step and the return
AddTranscriptionProcessQueue(task_id) ==
    /\ manager = "transcription"
    /\ tm_caller[task_id] = "added"
    /\ TMInstall(tm_process_queue(TMState))
    /\ tm_caller' = [tm_caller EXCEPT ![task_id] = "returned"]
    /\ tm_ret' = SomeInt(task_id)
    /\ UNCHANGED <<envVars, tm_task_order, tm_callbacks, dmVars>>

\* _start_transcription, run by the thread _process_queue started
start_transcription(st, task_id) ==
    IF task_id \notin DOMAIN st.tasks
    THEN [st EXCEPT !.processing = FALSE,
                    !.worker = [@ EXCEPT ![task_id] = "exited"]]
    ELSE LET marked == [st EXCEPT !.tasks = [@ EXCEPT ![task_id].status = TRANSCRIBING],
                                  !.log = <<"Starting transcription", task_id>>]
             told == [marked EXCEPT !.notified =
                          TMNotified("admission", task_id, FALSE,
                                     TMSeen(marked.tasks, marked.processing, marked.current, task_id))]
         IN [told EXCEPT !.worker = [@ EXCEPT ![task_id] =
                             IF told.notified.raised THEN "unstarted" ELSE "inflight"]]

StartTranscription(task_id) ==
    /\ manager = "transcription"
    /\ tm_worker[task_id] = "spawned"
    /\ TMInstall(start_transcription(TMState, task_id))
    /\ UNCHANGED <<envVars, tm_task_order, tm_caller, tm_ret, tm_callbacks, dmVars>>

\* is_processing is not cleared on completion
TMCompleted_StillBusy(st, task_id, success, text, message) ==
    LET tasks == IF task_id \in DOMAIN st.tasks
                 THEN IF success
                      THEN [st.tasks EXCEPT ![task_id].status = DONE,
                                            ![task_id].text = text,
                                            ![task_id].progress = 100]
                      ELSE [st.tasks EXCEPT ![task_id].status = FAILED,
                                            ![task_id].error = message]
                 ELSE st.tasks
    IN [st EXCEPT !.tasks = tasks, !.current = NoTask]

\* completion_callback, the `with self.lock:` block
TMCompleted(st, task_id, success, text, message) ==
    LET tasks == IF task_id \in DOMAIN st.tasks
                 THEN IF success
                      THEN [st.tasks EXCEPT ![task_id].status = DONE,
                                            ![task_id].text = text,
                                            ![task_id].progress = 100]
                      ELSE [st.tasks EXCEPT ![task_id].status = FAILED,
                                            ![task_id].error = message]
                 ELSE st.tasks
    IN [st EXCEPT !.tasks = tasks, !.processing = FALSE, !.current = NoTask]

\* the lock block of completion_callback leaves the progress as last reported
TMCompletion_ProgressKept(task_id, success) ==
    /\ manager = "transcription"
    /\ tm_worker[task_id] = "inflight"
    /\ TMInstall([TMCompleted(TMState, task_id, success,
                              IF success THEN Text ELSE "",
                              IF success THEN "Success" ELSE FailureMessage(task_id))
                    EXCEPT !.tasks = [@ EXCEPT ![task_id].progress =
                                                   tm_tasks[task_id].progress],
                           !.worker = [@ EXCEPT ![task_id] =
                                           IF status_callbacks = <<>>
                                           THEN "completed" ELSE "notifying"],
                           !.log = <<IF success THEN "Transcription completed"
                                                ELSE "Transcription failed", task_id>>])
    /\ tm_callbacks' = [tm_callbacks EXCEPT ![task_id] = @ + 1]
    /\ UNCHANGED <<envVars, tm_task_order, tm_caller, tm_ret, dmVars>>

TMCompletion(task_id, success) ==
    /\ manager = "transcription"
    /\ tm_worker[task_id] = "inflight"
    /\ TMInstall([TMCompleted(TMState, task_id, success,
                              IF success THEN Text ELSE "",
                              IF success THEN "Success" ELSE FailureMessage(task_id))
                    EXCEPT !.worker = [@ EXCEPT ![task_id] =
                                           IF status_callbacks = <<>>
                                           THEN "completed" ELSE "notifying"],
                           !.log = <<IF success THEN "Transcription completed"
                                                ELSE "Transcription failed", task_id>>])
    /\ tm_callbacks' = [tm_callbacks EXCEPT ![task_id] = @ + 1]
    /\ UNCHANGED <<envVars, tm_task_order, tm_caller, tm_ret, dmVars>>

\* completion_callback, self._notify_status_change() after the lock was
\* released: other threads may have run since.  An exception leaving
\* _notify_status_change would end the thread before its admission step
TMCompletionNotify(task_id) ==
    /\ manager = "transcription"
    /\ tm_worker[task_id] = "notifying"
    /\ tm_notified' = TMNotified("completion", task_id, FALSE,
                                 TMSeen(tm_tasks, is_processing, current_task_id, task_id))
    /\ tm_worker' = [tm_worker EXCEPT ![task_id] =
                         IF tm_notified'.raised THEN "died" ELSE "completed"]
    /\ UNCHANGED <<envVars, tm_tasks, tm_task_order, tm_queue, current_task_id,
                   is_processing, tm_caller, tm_dispatched, tm_log, tm_ret, tm_callbacks,
                   dmVars>>

\* the completion callback returns without an admission step
TMCompletionProcessQueue_NoPass(task_id) ==
    /\ manager = "transcription"
    /\ tm_worker[task_id] = "completed"
    /\ tm_worker' = [tm_worker EXCEPT ![task_id] = "exited"]
    /\ tm_notified' = NoNotification
    /\ UNCHANGED <<envVars, tm_tasks, tm_task_order, tm_queue, current_task_id,
                   is_processing, tm_caller, tm_dispatched, tm_log, tm_ret, tm_callbacks,
                   dmVars>>

\* completion_callback, the admission step after the lock was released
TMCompletionProcessQueue(task_id) ==
    /\ manager = "transcription"
    /\ tm_worker[task_id] = "completed"
    /\ TMInstall(tm_process_queue([TMState EXCEPT !.worker[task_id] = "exited"]))
    /\ UNCHANGED <<envVars, tm_task_order, tm_caller, tm_ret, tm_callbacks, dmVars>>

\* progress_callback of _start_transcription: the lock block and the
\* notification
TMProgressCallback(task_id, percent) ==
    /\ manager = "transcription"
    /\ tm_worker[task_id] = "inflight"
    /\ tm_tasks' = IF task_id \in DOMAIN tm_tasks
                   THEN [tm_tasks EXCEPT ![task_id].progress = percent]
                   ELSE tm_tasks
    /\ tm_notified' = TMNotified("progress", task_id, FALSE,
                                 TMSeen(tm_tasks', is_processing, current_task_id, task_id))
    /\ tm_worker' = [tm_worker EXCEPT ![task_id] =
                         IF tm_notified'.raised THEN "died" ELSE "inflight"]
    /\ UNCHANGED <<envVars, tm_task_order, tm_queue, current_task_id, is_processing,
                   tm_caller, tm_dispatched, tm_log, tm_ret, tm_callbacks, dmVars>>

\* ---- TranscriptionManager when a thread cannot be started ----

\* _process_queue whose thread.start() raises after the lock block: the task
\* is popped and is_processing is set, but _start_transcription never runs
tm_process_queue_raises(st) ==
    LET task_id == TMNextTask(st.queue)
    IN [st EXCEPT !.processing = TRUE,
                  !.queue = TMQueueAfterPop(@),
                  !.current = task_id,
                  !.worker = [@ EXCEPT ![task_id] = "unstarted"]]

\* add_transcription whose admission step raises: the exception reaches the caller
AddTranscriptionRaises(task_id) ==
    /\ manager = "transcription"
    /\ tm_caller[task_id] = "added"
    /\ ~TMBusyOrEmpty(TMState)
    /\ TMInstall(tm_process_queue_raises(TMState))
    /\ tm_caller' = [tm_caller EXCEPT ![task_id] = "raised"]
    /\ UNCHANGED <<envVars, tm_task_order, tm_ret, tm_callbacks, dmVars>>

\* _start_transcription whose self.transcriber.transcribe(...) raises
\* (Thread.start() in AudioTranscriber.transcribe): the thread ends there
StartTranscriptionRaises(task_id) ==
    /\ manager = "transcription"
    /\ tm_worker[task_id] = "spawned"
    /\ TMInstall([start_transcription(TMState, task_id)
                    EXCEPT !.worker = [@ EXCEPT ![task_id] = "unstarted"]])
    /\ UNCHANGED <<envVars, tm_task_order, tm_caller, tm_ret, tm_callbacks, dmVars>>

\* _transcribe, line 129: completion_callback(True, ...) called inside the try
\* block; the lock block of the callback
TMCompletionInTry(task_id) ==
    /\ manager = "transcription"
    /\ tm_worker[task_id] = "inflight"
    /\ LET done == TMCompleted(TMState, task_id, TRUE, Text, "Success")
       IN TMInstall([done EXCEPT !.worker = [@ EXCEPT ![task_id] = "completed_try"],
                                 !.log = <<"Transcription completed", task_id>>,
                                 !.notified =
                                     TMNotified("completion", task_id, FALSE,
                                                TMSeen(done.tasks, done.processing, done.current, task_id))])
    /\ tm_callbacks' = [tm_callbacks EXCEPT ![task_id] = @ + 1]
    /\ UNCHANGED <<envVars, tm_task_order, tm_caller, tm_ret, dmVars>>

\* the admission step of that callback returns normally
TMTryProcessQueue(task_id) ==
    /\ manager = "transcription"
    /\ tm_worker[task_id] = "completed_try"
    /\ TMInstall(tm_process_queue([TMState EXCEPT !.worker[task_id] = "exited"]))
    /\ UNCHANGED <<envVars, tm_task_order, tm_caller, tm_ret, tm_callbacks, dmVars>>

\* the admission step of that callback raises: the exception leaves
\* completion_callback and is caught by `except Exception` of _transcribe
TMTryProcessQueueRaises(task_id) ==
    /\ manager = "transcription"
    /\ tm_worker[task_id] = "completed_try"
    /\ ~TMBusyOrEmpty(TMState)
    /\ TMInstall(tm_process_queue_raises([TMState EXCEPT !.worker[task_id] = "recalling"]))
    /\ UNCHANGED <<envVars, tm_task_order, tm_caller, tm_ret, tm_callbacks, dmVars>>

\* _transcribe, lines 131-136: the except block calls completion_callback(False,
\* "", error_msg) for the task whose callback already ran; its lock block
TMRecall(task_id) ==
    /\ manager = "transcription"
    /\ tm_worker[task_id] = "recalling"
    /\ LET done == TMCompleted(TMState, task_id, FALSE, "", CannotStart)
       IN TMInstall([done EXCEPT !.worker = [@ EXCEPT ![task_id] = "completed"],
                                 !.log = <<"Transcription failed", task_id>>,
                                 !.notified =
                                     TMNotified("completion", task_id, FALSE,
                                                TMSeen(done.tasks, done.processing, done.current, task_id))])
    /\ tm_callbacks' = [tm_callbacks EXCEPT ![task_id] = @ + 1]
    /\ UNCHANGED <<envVars, tm_task_order, tm_caller, tm_ret, dmVars>>

\* the admission step of a callback called from the except block raises: the
\* exception ends the transcriber thread
TMCompletionProcessQueueRaises(task_id) ==
    /\ manager = "transcription"
    /\ tm_worker[task_id] = "completed"
    /\ ~TMBusyOrEmpty(TMState)
    /\ TMInstall(tm_process_queue_raises([TMState EXCEPT !.worker[task_id] = "died"]))
    /\ UNCHANGED <<envVars, tm_task_order, tm_caller, tm_ret, tm_callbacks, dmVars>>

TMClearCompleted ==
    /\ manager = "transcription"
    /\ tm_tasks' = ClearedTasks(tm_tasks)
    /\ tm_task_order' = ClearedOrder(tm_task_order, tm_tasks)
    /\ tm_log' = ClearedLog(tm_tasks)
    /\ tm_ret' = ClearReturn(tm_tasks)
    /\ tm_notified' = TMNotified("clear", NoTask, FALSE, Unseen)
    /\ UNCHANGED <<envVars, tm_queue, current_task_id, is_processing, tm_caller,
                   tm_worker, tm_dispatched, tm_callbacks, dmVars>>

\* the 0-based index is returned as is
get_queue_position_ZeroBased(queue, task_id) ==
    IF InList(queue, task_id) THEN SomeInt(ListIndex(queue, task_id)) ELSE NoInt

\* get_queue_position
get_queue_position(queue, task_id) ==
    IF InList(queue, task_id) THEN SomeInt(ListIndex(queue, task_id) + 1) ELSE NoInt

\* TranscriptionManager.get_summary
TMSummary ==
    [total |-> Cardinality(DOMAIN tm_tasks),
     queued |-> Len(tm_queue),
     active |-> IF is_processing THEN 1 ELSE 0,
     done |-> Cardinality(WithStatus(tm_tasks, DONE)),
     failed |-> Cardinality(WithStatus(tm_tasks, FAILED))]

\* ======================= observers =======================

\* how many registrations a behaviour makes
MaxRegistrations == 3

\* every registered callback is appended, already present or not
add_status_callback_Always(callbacks, callback) == Append(callbacks, callback)

\* TranscriptionManager.add_status_callback
add_status_callback(callbacks, callback) ==
    IF InList(callbacks, callback) THEN callbacks ELSE Append(callbacks, callback)

\* DownloadManager.set_status_callback; the tabs register while the window is
\* built, before the user can submit anything
SetStatusCallback(callback) ==
    /\ manager = "download"
    /\ DMSubmitted = {}
    /\ registrations < MaxRegistrations
    /\ status_callback' = callback
    /\ registrations' = registrations + 1
    /\ last_registered' = callback
    /\ dm_notified' = NoNotification
    /\ UNCHANGED <<manager, status_callbacks, all_tasks, tab, display, max_concurrent, dm_tasks,
                   dm_task_order, dm_queue, active_downloads, dm_caller, dm_worker,
                   dm_dispatched, dm_log, dm_ret, dm_callbacks, dm_lock, tmVars>>

AddStatusCallback(callback) ==
    /\ manager = "transcription"
    /\ TMSubmitted = {}
    /\ registrations < MaxRegistrations
    /\ status_callbacks' = add_status_callback(status_callbacks, callback)
    /\ registrations' = registrations + 1
    /\ last_registered' = callback
    /\ tm_notified' = NoNotification
    /\ UNCHANGED <<manager, status_callback, all_tasks, tab, display, tm_tasks, tm_task_order, tm_queue,
                   current_task_id, is_processing, tm_caller, tm_worker, tm_dispatched,
                   tm_log, tm_ret, tm_callbacks, dmVars>>

\* ======================= a client listing the tasks =======================

\* the list get_all_tasks builds: one reference per listed id, to the record
\* object the mapping holds for it
get_all_tasks(tasks, order) ==
    [asked |-> TRUE,
     refs |-> SelectSeq(order, LAMBDA i : i \in DOMAIN tasks),
     then |-> GetAllTasks(tasks, order)]

\* the client calls get_all_tasks once and keeps the list
DMGetAllTasks ==
    /\ manager = "download"
    /\ dm_lock = Free
    /\ ~all_tasks.asked
    /\ all_tasks' = get_all_tasks(dm_tasks, dm_task_order)
    /\ UNCHANGED <<manager, status_callback, status_callbacks, registrations,
                   last_registered, tab, display, dmVars, tmVars>>

TMGetAllTasks ==
    /\ manager = "transcription"
    /\ ~all_tasks.asked
    /\ all_tasks' = get_all_tasks(tm_tasks, tm_task_order)
    /\ UNCHANGED <<manager, status_callback, status_callbacks, registrations,
                   last_registered, tab, display, dmVars, tmVars>>

\* ======================= DownloadTab.start_downloads =======================

\* how many URL fields a request fills
MaxUrls == 2

\* the destination is not checked
Rejection_NoDestinationCheck(ffmpeg, urls, download_path) ==
    IF ~ffmpeg THEN MissingRequirements
    ELSE IF urls = 0 THEN NoUrl
    ELSE NoDialog

\* the early returns of start_downloads, by the dialog shown; NoDialog when
\* the request goes on to add_download
Rejection(ffmpeg, urls, download_path) ==
    IF ~ffmpeg THEN MissingRequirements
    ELSE IF urls = 0 THEN NoUrl
    ELSE IF download_path = None THEN NoDestination
    ELSE NoDialog

\* the UI thread is not inside an earlier start_downloads
TabIdle ==
    /\ Cardinality(DMSubmitted) = tab.accepted
    /\ \A i \in TaskIds : dm_caller[i] # "added"

\* start_downloads up to its loop
StartDownloads(ffmpeg, urls, download_path) ==
    /\ manager = "download"
    /\ TabIdle
    /\ tab.accepted + urls <= MaxTasks
    /\ LET dialog == Rejection(ffmpeg, urls, download_path)
       IN tab' = [asked |-> TRUE, ffmpeg |-> ffmpeg, urls |-> urls,
                  download_path |-> download_path, dialog |-> dialog,
                  accepted |-> IF dialog = NoDialog THEN tab.accepted + urls
                                                    ELSE tab.accepted]
    /\ UNCHANGED <<manager, status_callback, status_callbacks, registrations,
                   last_registered, all_tasks, display, dmVars, tmVars>>

\* the loop of start_downloads: the next add_download call, made when the
\* one before it has returned
TabAddDownload ==
    /\ Cardinality(DMSubmitted) < tab.accepted
    /\ \A i \in TaskIds : dm_caller[i] # "added"
    /\ AddDownload

\* ======================= specification =======================

Init ==
    /\ manager \in {"download", "transcription"}
    /\ status_callback = NoObserver
    /\ status_callbacks = <<>>
    /\ registrations = 0
    /\ last_registered = NoObserver
    /\ all_tasks = NotAsked
    /\ tab = NoRequest
    /\ display = NoDisplay
    /\ dm_lock = Free
    /\ dm_notified = NoNotification
    /\ tm_notified = NoNotification
    /\ max_concurrent \in 1..MaxConcurrent
    /\ dm_tasks = EmptyDict
    /\ dm_task_order = <<>>
    /\ dm_queue = <<>>
    /\ active_downloads = <<>>
    /\ dm_caller = [i \in TaskIds |-> "new"]
    /\ dm_worker = [i \in TaskIds |-> "none"]
    /\ dm_dispatched = <<>>
    /\ dm_log = NoLog
    /\ dm_ret = NoInt
    /\ dm_callbacks = [i \in TaskIds |-> 0]
    /\ tm_tasks = EmptyDict
    /\ tm_task_order = <<>>
    /\ tm_queue = <<>>
    /\ current_task_id = NoTask
    /\ is_processing = FALSE
    /\ tm_caller = [i \in TaskIds |-> "new"]
    /\ tm_worker = [i \in TaskIds |-> "none"]
    /\ tm_dispatched = <<>>
    /\ tm_log = NoLog
    /\ tm_ret = NoInt
    /\ tm_callbacks = [i \in TaskIds |-> 0]

DMProgress ==
    \/ \E i \in TaskIds : AddDownloadProcessQueue(i)
    \/ \E i \in TaskIds, ok \in BOOLEAN : DMCompletion(i, ok)
    \/ \E i \in TaskIds : DMCompletionProcessQueue(i)

TMProgress ==
    \/ \E i \in TaskIds : AddTranscriptionProcessQueue(i)
    \/ \E i \in TaskIds : StartTranscription(i)
    \/ \E i \in TaskIds, ok \in BOOLEAN : TMCompletion(i, ok)
    \/ \E i \in TaskIds : TMCompletionProcessQueue(i)

Progress == DMProgress \/ TMProgress

Submit == AddDownload \/ AddTranscription

Clear == DMClearCompleted \/ TMClearCompleted

Next == Submit \/ Progress \/ Clear

Spec == Init /\ [][Next]_vars

\* clear_completed never called; every step a started thread can take is taken
NextNoClear == Submit \/ Progress

LiveSpec == Init /\ [][NextNoClear]_vars /\ WF_vars(Progress)

\* ---- the same program when starting a thread can fail ----

\* the admission passes and callbacks as they run when nothing raises; a
\* successful operation reports from the try block of the collaborator
DMFaultFree ==
    \/ \E i \in TaskIds : AddDownloadProcessQueue(i)
    \/ \E i \in TaskIds : DMCompletion(i, FALSE)
    \/ \E i \in TaskIds : DMCompletionInTry(i)
    \/ \E i \in TaskIds : DMTryProcessQueue(i)
    \/ \E i \in TaskIds : DMCompletionProcessQueue(i)

DMFaults ==
    \/ \E i \in TaskIds : AddDownloadRaises(i)
    \/ \E i \in TaskIds : DMTryProcessQueueRaises(i)
    \/ \E i \in TaskIds : DMRecall(i)
    \/ \E i \in TaskIds : DMCompletionProcessQueueRaises(i)

TMFaultFree ==
    \/ \E i \in TaskIds : AddTranscriptionProcessQueue(i)
    \/ \E i \in TaskIds : StartTranscription(i)
    \/ \E i \in TaskIds : TMCompletion(i, FALSE)
    \/ \E i \in TaskIds : TMCompletionInTry(i)
    \/ \E i \in TaskIds : TMTryProcessQueue(i)
    \/ \E i \in TaskIds : TMCompletionProcessQueue(i)

TMFaults ==
    \/ \E i \in TaskIds : AddTranscriptionRaises(i)
    \/ \E i \in TaskIds : StartTranscriptionRaises(i)
    \/ \E i \in TaskIds : TMTryProcessQueueRaises(i)
    \/ \E i \in TaskIds : TMRecall(i)
    \/ \E i \in TaskIds : TMCompletionProcessQueueRaises(i)

FaultNext == Submit \/ Clear \/ DMFaultFree \/ DMFaults \/ TMFaultFree \/ TMFaults

FaultSpec == Init /\ [][FaultNext]_vars

\* ---- the managers with the downloader's progress reports ----

ProgressNext ==
    \/ Next
    \/ \E i \in TaskIds, message \in Messages : DMProgressCallback(i, message)

ProgressSpec == Init /\ [][ProgressNext]_vars

\* ---- the managers with observers registered ----

Register ==
    \/ \E callback \in Observers : SetStatusCallback(callback)
    \/ \E callback \in Observers : AddStatusCallback(callback)

Notify ==
    \/ \E i \in TaskIds : DMCompletionNotify(i)
    \/ \E i \in TaskIds : TMCompletionNotify(i)

Reports ==
    \/ \E i \in TaskIds, message \in Messages : DMProgressCallback(i, message)
    \/ \E i \in TaskIds, percent \in Percents : TMProgressCallback(i, percent)

\* how many tasks are submitted while callbacks are registered
MaxObserved == 2

ObservedSubmit ==
    \/ Cardinality(DMSubmitted) < MaxObserved /\ AddDownload
    \/ Cardinality(TMSubmitted) < MaxObserved /\ AddTranscription

ObserverNext == Register \/ ObservedSubmit \/ Progress \/ Clear \/ Notify \/ Reports

ObserverSpec == Init /\ [][ObserverNext]_vars

\* ---- the managers with a client that lists the tasks ----

List == DMGetAllTasks \/ TMGetAllTasks

SnapshotNext == Next \/ List

SnapshotSpec == Init /\ [][SnapshotNext]_vars

\* ---- the DownloadManager driven by the download tab ----

Press == \E ffmpeg \in BOOLEAN, urls \in 0..MaxUrls, download_path \in {None, Folder} :
             StartDownloads(ffmpeg, urls, download_path)

TabNext == Press \/ TabAddDownload \/ DMProgress \/ DMClearCompleted

TabSpec == Init /\ [][TabNext]_vars

\* ---- the download tab's status display ----

\* DownloadTab.__init__: the tab gives its update_status_display to the manager
\* it has created
CreateTab ==
    /\ status_callback = NoObserver
    /\ SetStatusCallback(Returning)

TabCreated == manager = "download" /\ status_callback = Returning

\* the callback of the last notification has run
Delivered == dm_notified.invoked = <<>>

\* update_status_display: nothing when _last_update is less than 100 ms old;
\* otherwise _last_update = now and parent.after(0, _update_status_display_impl)
update_status_display(d) ==
    IF d.last_update = Recent
    THEN d
    ELSE [d EXCEPT !.last_update = Recent, !.scheduled = @ + 1]

\* the manager's notification calls the tab's callback on the notifying thread
UpdateStatusDisplay ==
    /\ TabCreated
    /\ ~Delivered
    /\ display' = update_status_display(display)
    /\ dm_notified' = NoNotification
    /\ UNCHANGED <<manager, status_callback, status_callbacks, registrations,
                   last_registered, all_tasks, tab, max_concurrent, dm_tasks,
                   dm_task_order, dm_queue, active_downloads, dm_caller, dm_worker,
                   dm_dispatched, dm_log, dm_ret, dm_callbacks, dm_lock, tmVars>>

\* _update_status_display_impl: status_log.update_task for every task that
\* get_all_tasks returns; a task no longer returned keeps its line
update_status_display_impl(shown, tasks, order) ==
    LET listed == get_all_tasks(tasks, order)
        now == [k \in 1..Len(listed.refs) |-> listed.then[k].status]
    IN [i \in DOMAIN shown \cup Ids(listed.refs) |->
            IF i \in Ids(listed.refs) THEN now[ListIndex(listed.refs, i) + 1] ELSE shown[i]]

\* how many refreshes wait in the main loop at most
MaxScheduled == 2

\* the main loop, between two handlers, runs a refresh queued with parent.after
Refresh ==
    /\ TabCreated
    /\ Delivered
    /\ TabIdle
    /\ dm_lock = Free
    /\ display.scheduled > 0
    /\ display' = [display EXCEPT
                      !.scheduled = @ - 1,
                      !.shown = update_status_display_impl(@, dm_tasks, dm_task_order)]
    /\ UNCHANGED <<manager, status_callback, status_callbacks, registrations,
                   last_registered, all_tasks, tab, dmVars, tmVars>>

\* 100 ms pass since _last_update was set
Elapse ==
    /\ Delivered
    /\ display.last_update = Recent
    /\ display.scheduled < MaxScheduled
    /\ display' = [display EXCEPT !.last_update = Old]
    /\ UNCHANGED <<manager, status_callback, status_callbacks, registrations,
                   last_registered, all_tasks, tab, dmVars, tmVars>>

\* the steps of the manager's threads, each taken once the callback of the
\* step before it has returned
WatchedAdd == Delivered /\ TabAddDownload

WatchedProgress == Delivered /\ DMProgress

WatchedNotify == Delivered /\ \E i \in TaskIds : DMCompletionNotify(i)

\* what the threads of the manager and the main loop do on their own
DisplayThreads ==
    \/ UpdateStatusDisplay
    \/ Refresh
    \/ Elapse
    \/ WatchedAdd
    \/ WatchedProgress
    \/ WatchedNotify

\* how many downloads are started while the display is watched
MaxDisplayed == 2

WatchedPress ==
    \E ffmpeg \in BOOLEAN, urls \in 0..MaxUrls, download_path \in {None, Folder} :
        /\ tab.accepted + urls <= MaxDisplayed
        /\ StartDownloads(ffmpeg, urls, download_path)

\* what the user does
DisplayUser ==
    \/ CreateTab
    \/ TabCreated /\ Delivered /\ WatchedPress
    \/ TabCreated /\ Delivered /\ DMClearCompleted

DisplayNext == DisplayThreads \/ DisplayUser

\* every thread that can go on does; the main loop runs what is queued; time
\* passes
DisplayFairness ==
    /\ SF_vars(UpdateStatusDisplay)
    /\ SF_vars(Refresh)
    /\ SF_vars(Elapse)
    /\ SF_vars(WatchedAdd)
    /\ SF_vars(WatchedProgress)
    /\ SF_vars(WatchedNotify)

DisplaySpec == Init /\ [][DisplayNext]_vars /\ DisplayFairness

\* ======================= properties =======================

Min(a, b) == IF a < b THEN a ELSE b

NoDuplicates(s) == \A i, j \in 1..Len(s) : i # j => s[i] # s[j]

DMRunning == WithStatus(dm_tasks, DOWNLOADING)

TMRunning == WithStatus(tm_tasks, TRANSCRIBING)

\* completion callbacks that ran their lock block
DMCompletions == {i \in TaskIds : dm_worker[i] \in {"notifying", "completed", "exited"}}

TMCompletions == {i \in TaskIds : tm_worker[i] \in {"notifying", "completed", "exited"}}

\* no add_download call and no completion callback is between its lock block and
\* its admission pass
DMQuiescent ==
    \A i \in TaskIds : dm_caller[i] # "added" /\ dm_worker[i] \notin {"notifying", "completed"}

\* a step taken by clear_completed that changed something
DMClearStep == dm_log' # dm_log /\ dm_log'[1] = "Cleared"

TMClearStep == tm_log' # tm_log /\ tm_log'[1] = "Cleared"

\* C1: the number of records whose status is DOWNLOADING never exceeds
\* max_concurrent, whatever the interleaving of submits and completions.
C1_RunningAtMostLimit == Cardinality(DMRunning) <= max_concurrent

\* every slot is taken, a task waits, and a completion already freed a slot once
W_C1 ==
    /\ Cardinality(DMRunning) = max_concurrent
    /\ dm_queue # <<>>
    /\ DMCompletions # {}

\* C2: at most one TranscriptionManager record has status TRANSCRIBING.
C2_AtMostOneTranscribing == Cardinality(TMRunning) <= 1

\* a second task is being transcribed while a third waits
W_C2 ==
    /\ Cardinality(TMRunning) = 1
    /\ TMCompletions # {}
    /\ tm_queue # <<>>

\* C3: transcriptions are admitted in the order add_transcription appended them
\* (ids are numbered in that order), and when a task is dispatched every task
\* submitted before it has already completed.
C3_FifoAdmission ==
    /\ \A k \in 1..Len(tm_dispatched) : tm_dispatched[k] = k
    /\ \A a, b \in TaskIds :
         (a < b /\ tm_worker[b] # "none") => tm_worker[a] \in {"completed", "exited"}

\* the second task runs after the first finished, the third still waits
W_C3 ==
    /\ tm_dispatched = <<1, 2>>
    /\ 2 \in TMRunning
    /\ tm_queue = <<3>>

\* C4: no download task is admitted twice: an id is handed to the downloader
\* (and made DOWNLOADING) at most once.
C4_NoDoubleAdmission == NoDuplicates(dm_dispatched)

\* two completion callbacks and one add_download have all left their lock
\* block and are about to run their admission passes over the same waiting task
W_C4 ==
    \E i, j, k \in TaskIds :
        /\ i # j
        /\ dm_worker[i] = "completed"
        /\ dm_worker[j] = "completed"
        /\ dm_caller[k] = "added"
        /\ dm_queue = <<k>>

\* every submitted task has a record, every record is DONE or FAILED, and
\* get_all_tasks lists them in submission order
AllTerminalInOrder(tasks, order, submitted) ==
    LET listed == GetAllTasks(tasks, order)
    IN /\ Len(listed) = Cardinality(submitted)
       /\ \A k \in 1..Len(listed) : listed[k].id = k /\ IsTerminal(listed[k].status)

C5_Settled ==
    /\ AllTerminalInOrder(dm_tasks, dm_task_order, DMSubmitted)
    /\ AllTerminalInOrder(tm_tasks, tm_task_order, TMSubmitted)

\* C5: without clear_completed, and with every started thread running on, the
\* K tasks submitted so far always end as exactly K records, each DONE or
\* FAILED, listed in submission order (both managers).
C5_AllSubmittedSettle == []<>C5_Settled

\* all downloads settled, some DONE and some FAILED
W_C5 ==
    /\ Cardinality(DMSubmitted) = MaxTasks
    /\ AllTerminalInOrder(dm_tasks, dm_task_order, DMSubmitted)
    /\ WithStatus(dm_tasks, DONE) # {}
    /\ WithStatus(dm_tasks, FAILED) # {}

\* the same for transcriptions
W_C5_Transcription ==
    /\ Cardinality(TMSubmitted) = MaxTasks
    /\ AllTerminalInOrder(tm_tasks, tm_task_order, TMSubmitted)
    /\ WithStatus(tm_tasks, DONE) # {}
    /\ WithStatus(tm_tasks, FAILED) # {}

\* C6: with M > max_concurrent downloads submitted, never more than
\* N + completed tasks have been admitted, and whenever no call or callback is
\* in progress min(N, M - completed) records are running and the rest of the
\* uncompleted ones are queued: N run before any completion, each completion
\* admits exactly one waiting task, and nothing runs once all M completed.
C6_SlotsRefilled ==
    LET M == Cardinality(DMSubmitted)
        T == Cardinality(DMCompletions)
    IN M > max_concurrent =>
         /\ Len(dm_dispatched) <= Min(M, max_concurrent + T)
         /\ DMQuiescent =>
              /\ Len(dm_dispatched) = Min(M, max_concurrent + T)
              /\ Cardinality(DMRunning) = Min(max_concurrent, M - T)
              /\ Cardinality(WithStatus(dm_tasks, QUEUED)) = M - T - Cardinality(DMRunning)

\* a failed download freed a slot, the next task took it, and one still waits
W_C6 ==
    /\ DMQuiescent
    /\ Cardinality(DMSubmitted) > max_concurrent
    /\ \E i \in DMCompletions : i \in DOMAIN dm_tasks /\ dm_tasks[i].status = FAILED
    /\ Len(dm_dispatched) = max_concurrent + Cardinality(DMCompletions)
    /\ WithStatus(dm_tasks, QUEUED) # {}

\* C7: get_summary reports active in {0,1}; active = 1 exactly when one record
\* is TRANSCRIBING, active = 0 exactly when none is.
C7_ActiveMatchesRunning ==
    /\ TMSummary.active \in {0, 1}
    /\ TMSummary.active = 1 => Cardinality(TMRunning) = 1
    /\ TMSummary.active = 0 => Cardinality(TMRunning) = 0

\* what clear_completed must leave: the records that were not terminal, in the
\* same order, each unchanged
ClearedExactly(tasks, order, tasksAfter, orderAfter) ==
    /\ DOMAIN tasksAfter = {i \in DOMAIN tasks : ~IsTerminal(tasks[i].status)}
    /\ \A i \in DOMAIN tasksAfter : tasksAfter[i] = tasks[i]
    /\ orderAfter = SelectSeq(order, LAMBDA i : i \in DOMAIN tasksAfter)

\* C8: clear_completed removes exactly the DONE and FAILED records from the
\* mapping and the order list and changes nothing else: the other records, the
\* waiting line and the active / processing tracking stay as they were.
C8_ClearRemovesExactlyTerminal ==
    [][ /\ DMClearStep =>
            /\ ClearedExactly(dm_tasks, dm_task_order, dm_tasks', dm_task_order')
            /\ UNCHANGED <<dm_queue, active_downloads, max_concurrent>>
        /\ TMClearStep =>
            /\ ClearedExactly(tm_tasks, tm_task_order, tm_tasks', tm_task_order')
            /\ UNCHANGED <<tm_queue, is_processing, current_task_id>> ]_vars

\* a clear removed two settled downloads and left the running one
W_C8 ==
    /\ dm_log = <<"Cleared", 2>>
    /\ Cardinality(DOMAIN dm_tasks) = 1
    /\ DMRunning # {}

\* C9 as claimed: clear_completed returns the number of records it removed.
C9_ReturnsCount ==
    [][ /\ DMClearStep =>
            dm_ret' = SomeInt(Cardinality(DOMAIN dm_tasks) - Cardinality(DOMAIN dm_tasks'))
        /\ TMClearStep =>
            tm_ret' = SomeInt(Cardinality(DOMAIN tm_tasks) - Cardinality(DOMAIN tm_tasks')) ]_vars

\* ids get_queue_position can be asked about: every id ever issued, and one
\* the manager never issued
AskedIds == TaskIds \cup {MaxTasks + 1}

C10_Positions ==
    \A id \in AskedIds :
        LET pos == get_queue_position(tm_queue, id)
            ahead == {j \in TaskIds : j < id /\ InList(tm_queue, j)}
        IN /\ InList(tm_queue, id) => pos = SomeInt(Cardinality(ahead) + 1)
           /\ (id \notin DOMAIN tm_tasks \/ tm_tasks[id].status \in {TRANSCRIBING, DONE, FAILED})
                => pos = NoInt

C10_NextAdmittedWasFirst ==
    tm_dispatched' # tm_dispatched =>
        get_queue_position(tm_queue, tm_dispatched'[Len(tm_dispatched')]) = SomeInt(1)

\* C10: get_queue_position is 1 for the task admitted next, k + 1 for a task
\* with k tasks ahead of it in the waiting list, and None for an id that is
\* running, DONE, FAILED or unknown.
C10_QueuePosition == []C10_Positions /\ [][C10_NextAdmittedWasFirst]_vars

\* one task running, two waiting at positions 1 and 2
W_C10 ==
    /\ TMRunning # {}
    /\ Len(tm_queue) = 2
    /\ get_queue_position(tm_queue, tm_queue[2]) = SomeInt(2)

\* the lock block of a completion callback reporting failure ran for task i
DMFailStep(i) ==
    /\ dm_worker[i] = "inflight"
    /\ dm_worker'[i] = "completed"
    /\ dm_log' = <<"Download failed", i>>

TMFailStep(i) ==
    /\ tm_worker[i] = "inflight"
    /\ tm_worker'[i] = "completed"
    /\ tm_log' = <<"Transcription failed", i>>

\* C11: when the completion callback reports failure with message m, the
\* record becomes FAILED with error = m and stops counting as running or
\* active in that same step; no record whose callback ran is still running,
\* and a FAILED record keeps the message it was given (both managers).
C11_FailureRecorded ==
    /\ [](/\ \A i \in DMCompletions \cap DOMAIN dm_tasks :
               /\ IsTerminal(dm_tasks[i].status)
               /\ ~InList(active_downloads, i)
               /\ dm_tasks[i].status = FAILED => dm_tasks[i].error = FailureMessage(i)
          /\ \A i \in TMCompletions \cap DOMAIN tm_tasks :
               /\ IsTerminal(tm_tasks[i].status)
               /\ current_task_id # i
               /\ tm_tasks[i].status = FAILED => tm_tasks[i].error = FailureMessage(i))
    /\ [][\A i \in TaskIds :
            /\ (DMFailStep(i) /\ i \in DOMAIN dm_tasks) =>
                 /\ dm_tasks'[i].status = FAILED
                 /\ dm_tasks'[i].error = FailureMessage(i)
                 /\ ~InList(active_downloads', i)
                 /\ DMSummary'.active = DMSummary.active - 1
            /\ (TMFailStep(i) /\ i \in DOMAIN tm_tasks) =>
                 /\ tm_tasks'[i].status = FAILED
                 /\ tm_tasks'[i].error = FailureMessage(i)
                 /\ ~is_processing'
                 /\ TMSummary'.active = 0]_vars

\* one download failed with its own message while another one is still running
W_C11 ==
    \E i, j \in DOMAIN dm_tasks :
        /\ dm_tasks[i].status = FAILED
        /\ dm_tasks[i].error = DiskFull
        /\ ~InList(active_downloads, i)
        /\ dm_tasks[j].status = DOWNLOADING

\* C12: a failing download changes its own record only: the other records,
\* the waiting line and the order list are untouched and the other running
\* downloads stay running; the admission pass that follows hands the freed
\* slot to the task at the head of the waiting line.
C12_FailureIsolated ==
    [][\A i \in TaskIds :
         /\ (DMFailStep(i) /\ i \in DOMAIN dm_tasks) =>
              /\ DOMAIN dm_tasks' = DOMAIN dm_tasks
              /\ \A j \in DOMAIN dm_tasks \ {i} : dm_tasks'[j] = dm_tasks[j]
              /\ DMRunning' = DMRunning \ {i}
              /\ active_downloads' = ListRemove(active_downloads, i)
              /\ UNCHANGED <<dm_queue, dm_task_order>>
         /\ (dm_worker[i] = "completed" /\ dm_worker'[i] = "exited") =>
              /\ DMRunning \subseteq DMRunning'
              /\ (dm_queue # <<>> /\ Len(active_downloads) < max_concurrent) =>
                   /\ Head(dm_queue) \in DMRunning'
                   /\ ~InList(dm_queue', Head(dm_queue))
              /\ dm_queue' = <<>> \/ Cardinality(DMRunning') = max_concurrent]_vars

\* the first download failed and left; its two siblings include the task that
\* waited, and both are running
W_C12 ==
    /\ max_concurrent = 2
    /\ dm_worker[1] = "exited"
    /\ 1 \in DOMAIN dm_tasks /\ dm_tasks[1].status = FAILED
    /\ DMRunning = {2, 3}
    /\ dm_dispatched = <<1, 2, 3>>

\* every thread that entered a manager has left it (returned, raised or died)
DMThreadsDone ==
    \A i \in TaskIds :
        /\ dm_caller[i] # "added"
        /\ dm_worker[i] \notin {"inflight", "completed", "completed_try", "recalling"}

TMThreadsDone ==
    \A i \in TaskIds :
        /\ tm_caller[i] # "added"
        /\ tm_worker[i] \notin {"spawned", "inflight", "completed", "completed_try",
                                "recalling"}

\* the collaborator raised when it was asked to start the work of these tasks
DMStartRaised == {i \in DOMAIN dm_tasks : dm_worker[i] = "unstarted"}

TMStartRaised == {i \in DOMAIN tm_tasks : tm_worker[i] = "unstarted"}

\* C13: when the collaborator raises instead of reporting through the
\* completion callback, no exception reaches the caller of add_download /
\* add_transcription, and once every thread has left the manager the task
\* whose start raised is FAILED and no record is left running.
C13_RaisingCollaboratorSettles ==
    /\ \A i \in TaskIds : dm_caller[i] # "raised" /\ tm_caller[i] # "raised"
    /\ DMThreadsDone =>
         /\ \A i \in DMStartRaised : dm_tasks[i].status = FAILED
         /\ DMRunning = {}
    /\ TMThreadsDone =>
         /\ \A i \in TMStartRaised : tm_tasks[i].status = FAILED
         /\ TMRunning = {}

\* C14: a collaborator invocation calls its completion callback exactly once:
\* never twice, and once by the time its thread has ended, also when the
\* callback itself raised.
C14_CallbackExactlyOnce ==
    \A i \in TaskIds :
        /\ dm_callbacks[i] <= 1
        /\ tm_callbacks[i] <= 1
        /\ dm_worker[i] \in {"exited", "died"} => dm_callbacks[i] = 1
        /\ tm_worker[i] \in {"exited", "died"} => tm_callbacks[i] = 1

\* result and error of a record agree with its status
ResultMatchesStatus(task, result) ==
    /\ task.status = DONE => result # None /\ task.error = None
    /\ task.status = FAILED => task.error # None /\ result = None
    /\ task.status \in {QUEUED, DOWNLOADING, TRANSCRIBING} =>
         result = None /\ task.error = None

\* C15: a DONE record has a result (output_file / text) and no error, a FAILED
\* record has an error and no result, a QUEUED or running record has neither.
C15_ResultErrorExclusive ==
    /\ \A i \in DOMAIN dm_tasks : ResultMatchesStatus(dm_tasks[i], dm_tasks[i].output_file)
    /\ \A i \in DOMAIN tm_tasks : ResultMatchesStatus(tm_tasks[i], tm_tasks[i].text)

\* the status changes a record may make
StatusStep(before, after, running) ==
    \/ after = before
    \/ before = QUEUED /\ after = running
    \/ before = running /\ after \in {DONE, FAILED}

\* C16: a record's status only moves QUEUED -> running -> DONE or FAILED; a
\* DONE or FAILED record keeps its status for as long as it is in the mapping.
C16_StatusLifecycle ==
    [][/\ \A i \in DOMAIN dm_tasks \cap DOMAIN dm_tasks' :
            StatusStep(dm_tasks[i].status, dm_tasks'[i].status, DOWNLOADING)
       /\ \A i \in DOMAIN tm_tasks \cap DOMAIN tm_tasks' :
            StatusStep(tm_tasks[i].status, tm_tasks'[i].status, TRANSCRIBING)]_vars

\* C17: while a record is running its progress stays within 0..100 and never
\* decreases, whatever progress reports the collaborator delivers.
C17_ProgressMonotone ==
    [][/\ \A i \in DOMAIN dm_tasks \cap DOMAIN dm_tasks' :
            (dm_tasks[i].status = DOWNLOADING /\ dm_tasks'[i].status = DOWNLOADING) =>
                /\ dm_tasks'[i].progress >= dm_tasks[i].progress
                /\ dm_tasks'[i].progress \in 0..100
       /\ \A i \in DOMAIN tm_tasks \cap DOMAIN tm_tasks' :
            (tm_tasks[i].status = TRANSCRIBING /\ tm_tasks'[i].status = TRANSCRIBING) =>
                /\ tm_tasks'[i].progress >= tm_tasks[i].progress
                /\ tm_tasks'[i].progress \in 0..100]_vars

\* the ids of the records get_all_tasks returns, in the order returned
ListedIds(tasks, order) ==
    LET listed == GetAllTasks(tasks, order)
    IN [k \in 1..Len(listed) |-> listed[k].id]

\* ids ascend (ids are numbered in submission order) and are exactly the
\* ids the mapping holds
InSubmissionOrder(tasks, order) ==
    LET ids == ListedIds(tasks, order)
    IN /\ \A a, b \in 1..Len(ids) : a < b => ids[a] < ids[b]
       /\ {ids[k] : k \in 1..Len(ids)} = DOMAIN tasks

\* C18: get_all_tasks returns the records currently present, each once, in
\* submission order, after any interleaving of admissions, completions and
\* clears (both managers).
C18_ListedInSubmissionOrder ==
    /\ InSubmissionOrder(dm_tasks, dm_task_order)
    /\ InSubmissionOrder(tm_tasks, tm_task_order)

\* the second of three downloads was cleared; the first and the third are listed
W_C18 ==
    /\ ListedIds(dm_tasks, dm_task_order) = <<1, 3>>
    /\ dm_log[1] = "Cleared"
    /\ dm_caller[2] = "returned"

\* the fields of a summary equal the numbers of records per status
SummaryMatchesRecords(summary, tasks, running) ==
    /\ summary.queued = Cardinality(WithStatus(tasks, QUEUED))
    /\ summary.active = Cardinality(WithStatus(tasks, running))
    /\ summary.done = Cardinality(WithStatus(tasks, DONE))
    /\ summary.failed = Cardinality(WithStatus(tasks, FAILED))
    /\ summary.total = summary.queued + summary.active + summary.done + summary.failed

\* C19: in every summary queued, active, done and failed equal the number of
\* records with that status and total is their sum (both managers).
C19_SummaryConsistent ==
    /\ SummaryMatchesRecords(DMSummary, dm_tasks, DOWNLOADING)
    /\ SummaryMatchesRecords(TMSummary, tm_tasks, TRANSCRIBING)

\* a submitted task is wholly absent or wholly present: before the lock block
\* of the add call it is in none of the three structures; from then until it is
\* dispatched it is in all three, QUEUED; and its record goes away only after
\* its completion callback ran
SubmittedWhole(tasks, order, queue, caller, worker, i) ==
    /\ caller[i] = "new" =>
         i \notin DOMAIN tasks /\ ~InList(order, i) /\ ~InList(queue, i)
    /\ (caller[i] # "new" /\ worker[i] = "none") =>
         /\ i \in DOMAIN tasks /\ InList(order, i) /\ InList(queue, i)
         /\ tasks[i].status = QUEUED
    /\ (caller[i] # "new" /\ i \notin DOMAIN tasks) => worker[i] \in {"completed", "exited"}

\* the order list has no duplicates and holds exactly the mapping's ids
OrderMatchesMapping(tasks, order) ==
    /\ NoDuplicates(order)
    /\ {order[k] : k \in 1..Len(order)} = DOMAIN tasks

\* C20: submission is atomic: the order list never has duplicates and always
\* holds exactly the ids of the mapping; a new task is either in none of
\* mapping, order list and waiting line or in all three with status QUEUED;
\* no submit is lost, however the add calls interleave (both managers).
C20_SubmissionAtomic ==
    /\ OrderMatchesMapping(dm_tasks, dm_task_order)
    /\ OrderMatchesMapping(tm_tasks, tm_task_order)
    /\ \A i \in TaskIds :
         /\ SubmittedWhole(dm_tasks, dm_task_order, dm_queue, dm_caller, dm_worker, i)
         /\ SubmittedWhole(tm_tasks, tm_task_order, tm_queue, tm_caller, tm_worker, i)

\* three add_download calls overlap: each passed its lock block, none has
\* returned, and all three tasks are recorded
W_C20 ==
    /\ \A i \in TaskIds : dm_caller[i] = "added"
    /\ DOMAIN dm_tasks = TaskIds
    /\ dm_task_order = <<1, 2, 3>>

\* the manager whose get_all_tasks the client called
ListedManagerTasks == IF manager = "download" THEN dm_tasks ELSE tm_tasks

\* C21: the list get_all_tasks returned is a snapshot: whatever the manager
\* does afterwards, the list has the same members and every record in it has
\* the field values it had when the call returned (both managers; compared
\* for the records the manager still holds, the only ones it can still write).
C21_ListIsSnapshot ==
    /\ Len(all_tasks.refs) = Len(all_tasks.then)
    /\ \A k \in 1..Len(all_tasks.refs) :
         all_tasks.refs[k] \in DOMAIN ListedManagerTasks =>
             ListedManagerTasks[all_tasks.refs[k]] = all_tasks.then[k]

\* the position a thread is in right after the notification `n` it made, when
\* the notification returned to it
AfterNotification(n, caller, worker) ==
    /\ n.event = "submit" => caller[n.task] = "added"
    /\ n.event = "admission" => worker[n.task] = "inflight"
    /\ n.event = "progress" => worker[n.task] = "inflight"
    /\ n.event = "completion" => worker[n.task] = "completed"

\* no exception left _notify_status_change, and none ended a thread
NothingPropagated(n, caller, worker) ==
    /\ ~n.raised
    /\ n.logged = Raised(n.registered)
    /\ \A i \in TaskIds :
         /\ caller[i] # "raised"
         /\ worker[i] \notin {"unstarted", "recalling", "died"}

\* C22: an observer that raises during a notification does not propagate into
\* submit, admission, progress or completion logic: the exception is logged
\* and the logic goes on as if the observer had returned; in the
\* TranscriptionManager every other registered observer is still invoked.
C22_RaisingObserverContained ==
    /\ NothingPropagated(dm_notified, dm_caller, dm_worker)
    /\ NothingPropagated(tm_notified, tm_caller, tm_worker)
    /\ tm_notified.invoked = tm_notified.registered
    /\ Raised(tm_notified.registered) > 0 =>
         AfterNotification(tm_notified, tm_caller, tm_worker)
    /\ Raised(dm_notified.registered) > 0 =>
         AfterNotification(dm_notified, dm_caller, dm_worker)

\* a completion was notified to a raising callback and then to a returning
\* one; the worker goes on to its admission step
W_C22 ==
    /\ tm_notified.event = "completion"
    /\ tm_notified.registered = <<Raising, Returning>>
    /\ tm_notified.invoked = <<Raising, Returning>>
    /\ tm_notified.logged = 1
    /\ tm_worker[tm_notified.task] = "completed"

\* what the manager holds after the registrations made so far
RegisteredOnce ==
    /\ NoDuplicates(status_callbacks)
    /\ Len(status_callbacks) <= registrations
    /\ (manager = "transcription" /\ registrations > 0) =>
         InList(status_callbacks, last_registered)
    /\ (manager = "download" /\ registrations > 0) => status_callback = last_registered
    /\ (manager = "download" /\ registrations = 0) => status_callback = NoObserver

\* C23: the TranscriptionManager keeps its observers as a set-like list: a
\* callback registered any number of times is invoked exactly once per
\* notification; the DownloadManager holds at most one observer, and a later
\* set_status_callback replaces the earlier one.
C23_ObserversRegisteredOnce ==
    /\ RegisteredOnce
    /\ tm_notified.event # "" =>
         /\ tm_notified.registered = status_callbacks
         /\ tm_notified.invoked = status_callbacks
         /\ NoDuplicates(tm_notified.invoked)
    /\ dm_notified.event # "" => dm_notified.invoked = <<status_callback>>

\* three add_status_callback calls, one of them for a callback already
\* registered, and a completion notified to the two callbacks held
W_C23 ==
    /\ manager = "transcription"
    /\ registrations = 3
    /\ Len(status_callbacks) = 2
    /\ tm_notified.event = "completion"
    /\ tm_notified.invoked = status_callbacks

\* C24: the DownloadManager admits queued tasks in submission order: of two
\* tasks the one submitted first (the smaller id) becomes running no later
\* than the other, although they may reach a terminal status in either order.
C24_AdmittedInSubmissionOrder ==
    /\ \A k \in 1..Len(dm_dispatched) : dm_dispatched[k] = k
    /\ \A a, b \in DOMAIN dm_tasks :
         (a < b /\ dm_tasks[b].status # QUEUED) => dm_tasks[a].status # QUEUED
    /\ \A a, b \in TaskIds : (a < b /\ dm_worker[b] # "none") => dm_worker[a] # "none"

\* the second task was admitted after the first and is terminal while the first
\* still runs
W_C24 ==
    /\ dm_dispatched = <<1, 2>>
    /\ {1, 2} \subseteq DOMAIN dm_tasks
    /\ dm_tasks[1].status = DOWNLOADING
    /\ IsTerminal(dm_tasks[2].status)

\* the last request had an empty URL list or no destination folder
EmptyRequest(t) == t.asked /\ (t.urls = 0 \/ t.download_path = None)

\* C25: a download request with an empty URL list or without a destination
\* folder is rejected at the submission boundary: a dialog is shown, no
\* add_download call follows from it, no record is created and the store is
\* left as it was.
C25_EmptyRequestRejected ==
    /\ [](/\ EmptyRequest(tab) => tab.dialog # NoDialog
          /\ Cardinality(DMSubmitted) <= tab.accepted)
    /\ [][(tab' # tab /\ EmptyRequest(tab')) =>
              /\ tab'.accepted = tab.accepted
              /\ UNCHANGED dmVars]_vars

\* a request without destination folder was turned down while the store holds
\* the records of an earlier request
W_C25 ==
    /\ tab.asked
    /\ tab.urls = 2
    /\ tab.download_path = None
    /\ tab.dialog = NoDestination
    /\ tab.accepted = 1
    /\ DOMAIN dm_tasks = {1}

\* C26: a manager's lock is never held while an observer callback is invoked:
\* every _notify_status_change call (after submit, admission, progress,
\* completion and clear, in both managers) is made by a thread that does not
\* hold the lock.
C26_NotifiedUnlocked == ~dm_notified.locked /\ ~tm_notified.locked

\* C27: an observer that reads the manager synchronously (get_all_tasks,
\* get_task, get_summary) always returns: no thread of either manager is left
\* blocked forever on the non-reentrant lock.
C27_NoThreadBlocked == dm_lock = Free

\* some collaborator thread is doing the external work of a task
DMWorking == \E i \in TaskIds : dm_worker[i] = "inflight"

TMWorking == \E i \in TaskIds : tm_worker[i] = "inflight"

SeenCompleted(n, worker) ==
    n.event = "completion" =>
        /\ worker[n.task] = "completed"
        /\ IsTerminal(n.seen.status) \/ n.seen.status = None
        /\ ~n.seen.active

\* step 1 of the DownloadManager's completion callback for task i: the lock
\* block, and nothing else
DMCompletionLockBlock(i) ==
    /\ dm_worker[i] = "inflight"
    /\ i \in DOMAIN dm_tasks => IsTerminal(dm_tasks'[i].status)
    /\ ~InList(active_downloads', i)
    /\ dm_notified' = NoNotification
    /\ UNCHANGED <<dm_queue, dm_dispatched>>

TMCompletionLockBlock(i) ==
    /\ tm_worker[i] = "inflight"
    /\ i \in DOMAIN tm_tasks => IsTerminal(tm_tasks'[i].status)
    /\ ~is_processing' /\ current_task_id' = NoTask
    /\ tm_notified' = NoNotification
    /\ UNCHANGED <<tm_queue, tm_dispatched>>

\* the steps by which the completion callback of task i moves on
DMCompletionSteps(i) ==
    /\ dm_worker'[i] = "notifying" => DMCompletionLockBlock(i) /\ status_callback # NoObserver
    /\ dm_worker'[i] = "completed" =>
         \/ DMCompletionLockBlock(i) /\ status_callback = NoObserver
         \/ /\ dm_worker[i] = "notifying"
            /\ dm_notified'.event = "completion" /\ dm_notified'.task = i
            /\ UNCHANGED <<dm_tasks, active_downloads, dm_queue, dm_dispatched>>
    /\ dm_worker'[i] = "exited" =>
         /\ dm_worker[i] = "completed"
         /\ Len(active_downloads') >= max_concurrent \/ dm_queue' = <<>>

TMCompletionSteps(i) ==
    /\ tm_worker'[i] = "notifying" => TMCompletionLockBlock(i) /\ status_callbacks # <<>>
    /\ tm_worker'[i] = "completed" =>
         \/ TMCompletionLockBlock(i) /\ status_callbacks = <<>>
         \/ /\ tm_worker[i] = "notifying"
            /\ tm_notified'.event = "completion" /\ tm_notified'.task = i
            /\ UNCHANGED <<tm_tasks, is_processing, current_task_id, tm_queue, tm_dispatched>>
    /\ tm_worker'[i] = "exited" =>
         /\ tm_worker[i] \in {"completed", "spawned"}
         /\ is_processing' \/ tm_queue' = <<>>

\* C29: on each completion callback the manager does, in this order and each
\* exactly once: (1) under the lock, set the terminal status and take the task
\* out of the active set / clear the processing flag; (2) after releasing the
\* lock, notify the observers; (3) after the notification, run one admission
\* pass.  An observer invoked in step 2 already sees the task terminal and no
\* longer active.
C29_CompletionOrder ==
    /\ [](/\ SeenCompleted(dm_notified, dm_worker)
          /\ SeenCompleted(tm_notified, tm_worker)
          /\ \A i \in TaskIds : dm_callbacks[i] <= 1 /\ tm_callbacks[i] <= 1)
    /\ [][\A i \in TaskIds :
             /\ dm_worker'[i] # dm_worker[i] => DMCompletionSteps(i)
             /\ tm_worker'[i] # tm_worker[i] => TMCompletionSteps(i)]_vars

\* the callback is told of a completed download and finds it done and not
\* active, while the slot it freed is still free and a task waits for the
\* admission pass that follows
W_C29 ==
    /\ dm_notified.event = "completion"
    /\ dm_notified.seen.status = DONE
    /\ ~dm_notified.seen.active
    /\ dm_worker[dm_notified.task] = "completed"
    /\ dm_queue # <<>>
    /\ Len(active_downloads) < max_concurrent

\* slots of the DownloadManager that no running task holds
FreeSlots == max_concurrent - Len(active_downloads)

\* C30: the DownloadManager is work-conserving: in every state where no
\* manager operation or callback is in progress, fewer than max_concurrent
\* active tasks means an empty waiting line; a slot freed by a completion is
\* refilled by the admission pass of the completing thread itself.
C30_WorkConserving ==
    /\ [](DMQuiescent => (FreeSlots > 0 => dm_queue = <<>>))
    /\ [][\A i \in TaskIds :
             (dm_worker[i] = "completed" /\ dm_worker'[i] = "exited") =>
                 /\ Len(dm_dispatched') - Len(dm_dispatched) = Min(Len(dm_queue), FreeSlots)
                 /\ Len(active_downloads') = max_concurrent \/ dm_queue' = <<>>]_vars

\* the only slot was freed by the first download; the admission pass of its
\* completion callback gave it to the second, and the third still waits
W_C30 ==
    /\ DMQuiescent
    /\ max_concurrent = 1
    /\ dm_worker[1] = "exited"
    /\ dm_worker[2] = "inflight"
    /\ dm_queue = <<3>>
    /\ dm_log = <<"Starting download", 2>>

\* no add_transcription is between its lock block and its admission step, and
\* no completion callback is between its lock block and its admission step
TMQuiescent ==
    \A i \in TaskIds : tm_caller[i] # "added" /\ tm_worker[i] \notin {"notifying", "completed"}

\* C31: the TranscriptionManager self-drains: in every state where no manager
\* operation or callback is in progress, is_processing = FALSE implies an
\* empty FIFO list; after a completion the next queued task is admitted by the
\* completing thread, without any further submit or poll.
C31_SelfDrains ==
    /\ [](TMQuiescent => (~is_processing => tm_queue = <<>>))
    /\ [][\A i \in TaskIds :
             (tm_worker[i] = "completed" /\ tm_worker'[i] = "exited") =>
                 /\ is_processing' \/ tm_queue' = <<>>
                 /\ (~is_processing /\ tm_queue # <<>>) =>
                        /\ tm_dispatched' = Append(tm_dispatched, Head(tm_queue))
                        /\ current_task_id' = Head(tm_queue)
                        /\ tm_queue' = Tail(tm_queue)]_vars

\* the first transcription completed and the admission step of its completion
\* callback started the second; nobody else is inside the manager
W_C31 ==
    /\ TMQuiescent
    /\ tm_worker[1] = "exited"
    /\ tm_worker[2] = "spawned"
    /\ tm_dispatched = <<1, 2>>
    /\ tm_caller[2] = "returned"
    /\ is_processing

\* C33: TranscriptionManager: in every state observable outside the lock a
\* task id is in the FIFO waiting list if and only if its record has status
\* QUEUED; every QUEUED record has a queue position and is counted in the
\* summary's queued count.
C33_QueuedIffListed ==
    /\ \A i \in TaskIds :
         InList(tm_queue, i) <=> (i \in DOMAIN tm_tasks /\ tm_tasks[i].status = QUEUED)
    /\ \A i \in WithStatus(tm_tasks, QUEUED) : get_queue_position(tm_queue, i) # NoInt
    /\ TMSummary.queued = Cardinality(WithStatus(tm_tasks, QUEUED))

\* what an observer that re-reads the manager during the notification `n`
\* finds for the task the notification is about
ShownChange(n) ==
    /\ n.event = "submit" => n.seen.status # None
    /\ n.event = "admission" => n.seen.status \in {DOWNLOADING, TRANSCRIBING} /\ n.seen.active
    /\ n.event = "progress" => n.seen.status # None
    /\ n.event = "completion" => IsTerminal(n.seen.status) \/ n.seen.status = None

\* C32: every task state change (submission, admission to running, progress
\* update, completion, clear) is followed by an observer notification issued
\* after the change is visible in the store: a step that changes the records
\* notifies in the same step or leaves its thread about to notify, and an
\* observer re-reading state on a notification sees the change.
C32_ChangeThenNotified ==
    /\ [](dm_notified.invoked # <<>> => ShownChange(dm_notified))
    /\ [](tm_notified.invoked # <<>> => ShownChange(tm_notified))
    /\ [][(status_callback # NoObserver /\ dm_tasks' # dm_tasks) =>
              (dm_notified' # NoNotification \/ \E i \in TaskIds : dm_worker'[i] = "notifying")]_vars
    /\ [][(status_callbacks # <<>> /\ tm_tasks' # tm_tasks) =>
              (tm_notified' # NoNotification \/ \E i \in TaskIds : tm_worker'[i] = "notifying")]_vars

\* every id of the list is in it once
EachOnce(list) == Cardinality(Ids(list)) = Len(list)

\* C34: DownloadManager: in every state observable outside the lock
\* active_downloads has no duplicates and holds exactly the ids of the
\* DOWNLOADING records, and the waiting line holds exactly the ids of the
\* QUEUED records, each once.
C34_ListsMatchStatus ==
    dm_lock = Free =>
        /\ EachOnce(active_downloads)
        /\ Ids(active_downloads) = WithStatus(dm_tasks, DOWNLOADING)
        /\ EachOnce(dm_queue)
        /\ Ids(dm_queue) = WithStatus(dm_tasks, QUEUED)

W_C34 ==
    /\ dm_lock = Free
    /\ Len(active_downloads) = max_concurrent
    /\ dm_queue # <<>>
    /\ \E i \in DOMAIN dm_tasks : dm_tasks[i].status = DONE
    /\ \A i \in TaskIds : dm_caller[i] # "added"

\* the status log shows every task of the manager with its current status
DisplayCurrent ==
    \A i \in DOMAIN dm_tasks :
        i \in DOMAIN display.shown /\ display.shown[i] = dm_tasks[i].status

\* C35: DownloadTab display: after the last task state change of a batch the
\* status display is eventually refreshed from a read of the manager taken
\* after that change, so it does not stay on a stale state for ever: the 100 ms
\* rate limit of update_status_display never discards the last notification
\* without a later refresh.
C35_DisplayEventuallyCurrent == <>[]DisplayCurrent

\* the tasks popped from the FIFO list whose completion callback has not yet
\* run its lock block
TMPoppedRunning == {i \in TaskIds : tm_worker[i] \in {"spawned", "inflight"}}

\* C36: TranscriptionManager: in every state observable outside the lock
\* current_task_id is set if and only if is_processing is true, and when set
\* it is the id of the single task that was popped last from the FIFO list and
\* has not yet completed.
C36_CurrentIsRunningTask ==
    /\ (current_task_id # NoTask) <=> is_processing
    /\ is_processing =>
         /\ tm_dispatched # <<>>
         /\ current_task_id = tm_dispatched[Len(tm_dispatched)]
         /\ TMPoppedRunning = {current_task_id}
         /\ ~IsTerminal(tm_tasks[current_task_id].status)
    /\ ~is_processing => TMPoppedRunning = {}

W_C36 ==
    /\ is_processing
    /\ tm_dispatched = <<1, 2>>
    /\ current_task_id = 2
    /\ 1 \in DOMAIN tm_tasks
    /\ IsTerminal(tm_tasks[1].status)
    /\ tm_worker[2] = "inflight"

\* every DONE record of the mapping has progress 100
DoneIsComplete(tasks) ==
    \A i \in DOMAIN tasks : tasks[i].status = DONE => tasks[i].progress = 100

\* C37: in both managers every record with status DONE has progress = 100,
\* whatever progress values (or none) the collaborator reported before it
\* completed successfully.
C37_DoneAtHundred == DoneIsComplete(dm_tasks) /\ DoneIsComplete(tm_tasks)

W_C37 ==
    /\ {1, 2} \subseteq DOMAIN tm_tasks
    /\ tm_tasks[1].status = DONE /\ tm_tasks[1].progress = 100
    /\ tm_tasks[2].status = TRANSCRIBING /\ tm_tasks[2].progress \in Percents
====
